---- MODULE Spec2Model ----
(***************************************************************************)
(* The Details screen of app/details.tsx: the route parameter `name`, the  *)
(* component state (pokemon, loading, tab), the asynchronous               *)
(* fetchPokemonByName calls the effect starts, and the values the render   *)
(* derives from the state (primaryHex, heroImage, forms, type chips, stat  *)
(* rows).                                                                  *)
(***************************************************************************)
EXTENDS Integers, Sequences, FiniteSets, TLC

\* ------------------------------------------------------------------ bounds
\* Number of fetches one screen instance may start in a checked behaviour.
MaxFetches == 3
\* Longest `types` array of a decoded payload.
MaxTypes == 2
\* Longest stat name, in characters.
MaxNameLen == 5

\* --------------------------------------------------------- JavaScript values
\* null and undefined, kept apart from every string the program handles.
Null == "<null>"
Undefined == "<undefined>"

\* The state `pokemon` before any setPokemon: useState(null).
NoPokemon == [kind |-> "null"]

Nullish(v) == v = Null \/ v = Undefined

\* a ?? b
Coalesce(a, b) == IF Nullish(a) THEN b ELSE a

\* !!v for a string, null or undefined
Truthy(v) == ~Nullish(v) /\ v # ""

\* ------------------------------------------------------------------- names
\* Values the route parameter `name` takes: absent, empty, or a name as typed.
RouteNames == {Undefined, "", "A", "a", "b"}

\* String.prototype.toLowerCase on the strings above.
toLowerCase(s) == IF s = "A" THEN "a" ELSE s

\* const pokemonName = String(name ?? "").toLowerCase();
PokemonNameOf(nm) == toLowerCase(Coalesce(nm, ""))

\* ----------------------------------------------------------------- palette
colorsByType ==
    [t \in {"normal", "fire", "water", "electric", "grass", "ice", "fighting",
            "poison", "ground", "flying", "psychic", "bug", "rock", "ghost",
            "dragon", "dark", "steel", "fairy"} |->
        CASE t = "normal"   -> "#A8A77A"
          [] t = "fire"     -> "#EE8130"
          [] t = "water"    -> "#6390F0"
          [] t = "electric" -> "#F7D02C"
          [] t = "grass"    -> "#7AC74C"
          [] t = "ice"      -> "#96D9D6"
          [] t = "fighting" -> "#C22E28"
          [] t = "poison"   -> "#A33EA1"
          [] t = "ground"   -> "#E2BF65"
          [] t = "flying"   -> "#A98FF3"
          [] t = "psychic"  -> "#F95587"
          [] t = "bug"      -> "#A6B91A"
          [] t = "rock"     -> "#B6A136"
          [] t = "ghost"    -> "#735797"
          [] t = "dragon"   -> "#6F35FC"
          [] t = "dark"     -> "#705746"
          [] t = "steel"    -> "#B7B7CE"
          [] t = "fairy"    -> "#D685AD"]

\* colorsByType[type]: undefined for a key the record does not have.
ColorOf(type) ==
    IF type \in DOMAIN colorsByType THEN colorsByType[type] ELSE Undefined

\* parseInt(clean, 16) on the palette's hex strings.
ParseHex ==
    ("#A8A77A" :> 11052922) @@ ("#EE8130" :> 15630640) @@ ("#6390F0" :> 6525168)
    @@ ("#F7D02C" :> 16240684) @@ ("#7AC74C" :> 8046412) @@ ("#96D9D6" :> 9886166)
    @@ ("#C22E28" :> 12725800) @@ ("#A33EA1" :> 10698401) @@ ("#E2BF65" :> 14860133)
    @@ ("#A98FF3" :> 11112435) @@ ("#F95587" :> 16340359) @@ ("#A6B91A" :> 10926362)
    @@ ("#B6A136" :> 11968822) @@ ("#735797" :> 7559063) @@ ("#6F35FC" :> 7288316)
    @@ ("#705746" :> 7362374) @@ ("#B7B7CE" :> 12040142) @@ ("#D685AD" :> 14058925)

\* { r: (num >> 16) & 255, g: (num >> 8) & 255, b: num & 255 }
hexToRgb(hex) ==
    LET num == ParseHex[hex]
    IN  [r |-> (num \div 65536) % 256, g |-> (num \div 256) % 256, b |-> num % 256]

\* Math.round(c + (255 - c) * mix), with mix given in hundredths.
MixChannel(c, mixPct) == (100 * c + (255 - c) * mixPct + 50) \div 100

\* pastel(hex, mix): the three blended channels of `rgb(R, G, B)`.
pastel(hex, mixPct) ==
    LET c == hexToRgb(hex)
    IN  [r |-> MixChannel(c.r, mixPct), g |-> MixChannel(c.g, mixPct),
         b |-> MixChannel(c.b, mixPct)]

\* ---------------------------------------------------------------- payloads
\* Image URLs the API serves for the three sprite slots.
UrlDefault == "front_default.png"
UrlShiny == "front_shiny.png"
UrlArtwork == "official-artwork.png"

\* sprites of a decoded body: any of the optional levels may be missing.
SpriteShapes ==
    {[has |-> FALSE, front_default |-> Undefined, front_shiny |-> Undefined,
      other |-> FALSE, artwork |-> FALSE, artwork_front_default |-> Undefined]}
    \cup
    {[has |-> TRUE, front_default |-> fd, front_shiny |-> sh,
      other |-> FALSE, artwork |-> FALSE, artwork_front_default |-> Undefined] :
        fd \in {Undefined, Null, UrlDefault}, sh \in {Undefined, Null, UrlShiny}}
    \cup
    {[has |-> TRUE, front_default |-> fd, front_shiny |-> sh,
      other |-> TRUE, artwork |-> FALSE, artwork_front_default |-> Undefined] :
        fd \in {Undefined, Null, UrlDefault}, sh \in {Undefined, Null, UrlShiny}}
    \cup
    {[has |-> TRUE, front_default |-> fd, front_shiny |-> sh,
      other |-> TRUE, artwork |-> TRUE, artwork_front_default |-> art] :
        fd \in {Undefined, Null, UrlDefault}, sh \in {Undefined, Null, UrlShiny},
        art \in {Undefined, Null, UrlArtwork}}

\* Type names a body may carry: a palette key and a name the palette lacks.
TypeNames == {"fire", "shadow"}

SeqsUpTo(S, n) == UNION {[1..k -> S] : k \in 0..n}

\* Stat names as character sequences: letters with separators between them.
StatNames ==
    {s \in SeqsUpTo({"a", "-"}, MaxNameLen) :
        s # <<>> /\ s[1] = "a" /\ s[Len(s)] = "a"}

\* Bodies that decode to a PokemonDetails for the requested name n.
Payloads(n) ==
    {[kind |-> "object", name |-> n, sprites |-> sp, types |-> ty, stats |-> st] :
        sp \in SpriteShapes,
        ty \in SeqsUpTo(TypeNames, MaxTypes),
        st \in {<<>>} \cup {<<[name |-> s]>> : s \in StatNames}}

\* The body the API serves for n when the fetch machine is explored.
PayloadFor(n) ==
    [kind |-> "object", name |-> n,
     sprites |-> [has |-> TRUE, front_default |-> UrlDefault, front_shiny |-> UrlShiny,
                  other |-> TRUE, artwork |-> TRUE, artwork_front_default |-> UrlArtwork],
     types |-> <<"fire">>,
     stats |-> <<[name |-> <<"a", "-", "a">>]>>]

\* A body that is not JSON (the API answers a non-2xx status with plain text).
NotJson == [kind |-> "text"]

\* No Response object yet: the fetch() promise is still pending.
NoResponse == [kind |-> "none"]

\* ------------------------------------------------------------------- state
VARIABLES
    name,       \* useLocalSearchParams().name
    mounted,    \* the first render's effect has run
    pokemon,    \* useState<PokemonDetails | null>(null)
    loading,    \* useState(false)
    tab,        \* useState<Tab>("Forms")
    fetches     \* the fetchPokemonByName calls made so far, in call order

vars == <<name, mounted, pokemon, loading, tab, fetches>>

TABS == <<"Forms", "Detail", "Types", "Stats">>

pokemonName == PokemonNameOf(name)

started == Len(fetches)

Pending == {i \in 1..Len(fetches) : fetches[i].pc # "done"}

\* ------------------------------------------------------------ derived values
\* pokemon?.types?.[0]?.type?.name ?? "normal"
primaryType ==
    Coalesce(IF pokemon = NoPokemon \/ Len(pokemon.types) = 0
             THEN Undefined ELSE pokemon.types[1], "normal")

\* colorsByType[primaryType] ?? "#A8A77A"
primaryHex == Coalesce(ColorOf(primaryType), "#A8A77A")

pageBg == pastel(primaryHex, 86)
heroBg == pastel(primaryHex, 72)
chipBg == pastel(primaryHex, 60)

\* pokemon?.sprites?.front_default
SpriteDefault ==
    IF pokemon = NoPokemon \/ ~pokemon.sprites.has
    THEN Undefined ELSE pokemon.sprites.front_default

\* pokemon?.sprites?.front_shiny
SpriteShiny ==
    IF pokemon = NoPokemon \/ ~pokemon.sprites.has
    THEN Undefined ELSE pokemon.sprites.front_shiny

\* pokemon?.sprites?.other?.["official-artwork"]?.front_default
SpriteArtwork ==
    IF pokemon = NoPokemon \/ ~pokemon.sprites.has
       \/ ~pokemon.sprites.other \/ ~pokemon.sprites.artwork
    THEN Undefined ELSE pokemon.sprites.artwork_front_default

\* The two candidates consulted in the opposite order.
heroImage_DefaultFirst == Coalesce(SpriteDefault, Coalesce(SpriteArtwork, Null))

heroImage == Coalesce(SpriteArtwork, Coalesce(SpriteDefault, Null))

\* {heroImage ? <Image source={{ uri: heroImage }}/> : <ActivityIndicator/>}
HeroShown == IF Truthy(heroImage) THEN heroImage ELSE Null

FormHasUri(x) == Truthy(x.uri)

\* The three candidates without the .filter((x) => !!x.uri).
forms_NoFilter ==
    << [key |-> "default", label |-> "Default", uri |-> Coalesce(SpriteDefault, Null)],
       [key |-> "shiny", label |-> "Shiny", uri |-> Coalesce(SpriteShiny, Null)],
       [key |-> "art", label |-> "Artwork", uri |-> Coalesce(SpriteArtwork, Null)] >>

forms ==
    SelectSeq(
        << [key |-> "default", label |-> "Default", uri |-> Coalesce(SpriteDefault, Null)],
           [key |-> "shiny", label |-> "Shiny", uri |-> Coalesce(SpriteShiny, Null)],
           [key |-> "art", label |-> "Artwork", uri |-> Coalesce(SpriteArtwork, Null)] >>,
        FormHasUri)

\* const hex = colorsByType[type] ?? primaryHex;
ChipHex(type) == Coalesce(ColorOf(type), primaryHex)

\* One chip per entry of pokemon.types: text colour hex, background pastel(hex, 0.65).
typeChips ==
    IF pokemon = NoPokemon THEN <<>>
    ELSE [k \in 1..Len(pokemon.types) |->
            [type |-> pokemon.types[k],
             color |-> ChipHex(pokemon.types[k]),
             backgroundColor |-> pastel(ChipHex(pokemon.types[k]), 65)]]

\* String.prototype.replace(from, to) with a string pattern: the first match only.
RECURSIVE replace(_, _, _)
replace(s, from, to) ==
    IF s = <<>> THEN <<>>
    ELSE IF Head(s) = from THEN <<to>> \o Tail(s)
    ELSE <<Head(s)>> \o replace(Tail(s), from, to)

\* One row per entry of pokemon.stats: key s.stat.name, label s.stat.name.replace("-", " ").
statRows ==
    IF pokemon = NoPokemon THEN <<>>
    ELSE [k \in 1..Len(pokemon.stats) |->
            [key |-> pokemon.stats[k].name,
             label |-> replace(pokemon.stats[k].name, "-", " ")]]

\* What the content area shows: {loading && ...} and {!loading && pokemon && ...}.
\* The component has no error slot and renders no error text.
Content ==
    IF loading THEN "Loading"
    ELSE IF pokemon # NoPokemon THEN "Success"
    ELSE "Blank"

\* ------------------------------------------------------------------ actions
Init ==
    /\ name \in RouteNames
    /\ mounted = FALSE
    /\ pokemon = NoPokemon
    /\ loading = FALSE
    /\ tab = "Forms"
    /\ fetches = <<>>

\* fetchPokemonByName(n) up to its first await: setLoading(true), then fetch(url).
fetchPokemonByName(n) ==
    /\ Len(fetches) < MaxFetches
    /\ loading' = TRUE
    /\ fetches' = Append(fetches, [n |-> n, pc |-> "fetch", res |-> NoResponse,
                                   outcome |-> "pending"])
    /\ UNCHANGED pokemon

\* The effect body without its `if (!pokemonName) return;`.
useEffect_NoGuard(n) == fetchPokemonByName(n)

\* The effect body for the dependency value n: if (!pokemonName) return; fetch...
useEffect(n) ==
    IF n = "" THEN UNCHANGED <<pokemon, loading, fetches>>
    ELSE fetchPokemonByName(n)

\* First render committed: the effect runs once for the initial pokemonName.
Mount ==
    /\ ~mounted
    /\ mounted' = TRUE
    /\ useEffect(pokemonName)
    /\ UNCHANGED <<name, tab>>

\* A parameter change whose effect has no dependency list: it re-runs every time.
SetParams_NoDeps(nm) ==
    /\ mounted
    /\ nm # name
    /\ name' = nm
    /\ useEffect(PokemonNameOf(nm))
    /\ UNCHANGED <<mounted, tab>>

\* The route parameter changes; the effect re-runs only if pokemonName changed.
SetParams(nm) ==
    /\ mounted
    /\ nm # name
    /\ name' = nm
    /\ IF PokemonNameOf(nm) # pokemonName
       THEN useEffect(PokemonNameOf(nm))
       ELSE UNCHANGED <<pokemon, loading, fetches>>
    /\ UNCHANGED <<mounted, tab>>

\* onPress={() => setTab(t)}
SetTab(t) ==
    /\ mounted
    /\ t # tab
    /\ tab' = t
    /\ UNCHANGED <<name, mounted, pokemon, loading, fetches>>

\* A fetchPokemonByName without its finally block.
Finally_Missing == UNCHANGED loading

\* finally { setLoading(false); }
Finally == loading' = FALSE

\* await fetch(url) rejects (network error): catch logs, finally clears loading.
FetchRejects(i) ==
    /\ i \in 1..Len(fetches)
    /\ fetches[i].pc = "fetch"
    /\ fetches' = [fetches EXCEPT ![i].pc = "done", ![i].outcome = "threw"]
    /\ Finally
    /\ UNCHANGED <<name, mounted, pokemon, tab>>

\* Responses the API gives for n: 2xx with the record or with an undecodable body,
\* or a non-2xx status with a plain-text body.
Responses(bodies) ==
    {[ok |-> TRUE, body |-> b] : b \in bodies \cup {NotJson}}
    \cup {[ok |-> FALSE, body |-> NotJson]}

\* await fetch(url) resolves with a Response; res.ok is never read.
FetchResolves(i, res) ==
    /\ i \in 1..Len(fetches)
    /\ fetches[i].pc = "fetch"
    /\ fetches' = [fetches EXCEPT ![i].pc = "json", ![i].res = res]
    /\ UNCHANGED <<name, mounted, pokemon, loading, tab>>

\* await res.json() rejects (body is not JSON): catch logs, finally clears loading.
JsonRejects(i) ==
    /\ i \in 1..Len(fetches)
    /\ fetches[i].pc = "json"
    /\ fetches[i].res.body = NotJson
    /\ fetches' = [fetches EXCEPT ![i].pc = "done", ![i].res = NoResponse,
                                  ![i].outcome = "threw"]
    /\ Finally
    /\ UNCHANGED <<name, mounted, pokemon, tab>>

\* setPokemon(data)
SetPokemon(data) == pokemon' = data

\* await res.json() resolves: setPokemon(data), then finally clears loading.
JsonResolves(i) ==
    /\ i \in 1..Len(fetches)
    /\ fetches[i].pc = "json"
    /\ fetches[i].res.body # NotJson
    /\ SetPokemon(fetches[i].res.body)
    /\ fetches' = [fetches EXCEPT ![i].pc = "done", ![i].res = NoResponse,
                                  ![i].outcome = "stored"]
    /\ Finally
    /\ UNCHANGED <<name, mounted, tab>>

\* The bodies explored for the name n: the record the API serves for it, or
\* every record of Payloads(n).
BodiesFor(every, n) == IF every THEN Payloads(n) ELSE {PayloadFor(n)}

\* The fetch() of call i resolves with one of the responses explored for its name.
FetchResponds(i, every) ==
    /\ i \in 1..Len(fetches)
    /\ fetches[i].pc = "fetch"
    /\ \E res \in Responses(BodiesFor(every, fetches[i].n)) : FetchResolves(i, res)

\* One step of the network or of the JSON decoder for some call in flight.
Settle(every) ==
    \E i \in 1..Len(fetches) :
        \/ FetchRejects(i)
        \/ FetchResponds(i, every)
        \/ JsonRejects(i)
        \/ JsonResolves(i)

Next ==
    \/ Mount
    \/ \E nm \in RouteNames : SetParams(nm)
    \/ \E t \in {TABS[k] : k \in 1..Len(TABS)} : SetTab(t)
    \/ \E i \in 1..Len(fetches) : FetchRejects(i)
    \/ \E i \in 1..Len(fetches) : FetchResponds(i, FALSE)
    \/ \E i \in 1..Len(fetches) : JsonRejects(i)
    \/ \E i \in 1..Len(fetches) : JsonResolves(i)

Spec == Init /\ [][Next]_vars

\* The network and the decoder eventually answer every call in flight.
FairSpec == Spec /\ WF_vars(Settle(FALSE))

\* The view-model derivation over every decodable body: one screen, one name,
\* one fetch whose response carries any payload of Payloads.
InitVM == Init /\ name = "b"

NextVM ==
    \/ Mount
    \/ \E t \in {TABS[k] : k \in 1..Len(TABS)} : SetTab(t)
    \/ \E i \in 1..Len(fetches) : FetchRejects(i)
    \/ \E i \in 1..Len(fetches) : FetchResponds(i, TRUE)
    \/ \E i \in 1..Len(fetches) : JsonRejects(i)
    \/ \E i \in 1..Len(fetches) : JsonResolves(i)

SpecVM == InitVM /\ [][NextVM]_vars

\* ------------------------------------------------------------------ claims
Done == {i \in 1..Len(fetches) : fetches[i].pc = "done"}

\* C1: while a fetch has not settled the loading state is shown, and once the
\* fetches have settled the screen is in exactly one of success or error.
C1_Claim ==
    /\ (Pending # {} => loading = TRUE)
    /\ (Done # {} /\ Pending = {} => Content \in {"Success", "Error"})

\* C2: after the fetch for the requested name fails (the network call throws,
\* the status is non-2xx or the body does not decode) the pokemon slot holds
\* no payload, whatever an earlier fetch had stored.
C2_Claim ==
    (/\ Len(fetches) >= 1
     /\ Pending = {}
     /\ fetches[Len(fetches)].outcome = "threw")
    => pokemon = NoPokemon

\* A step that starts one request.
StartsOne == Len(fetches') = Len(fetches) + 1

\* The requested name becomes (first effect) or changes to a non-empty value.
BecomesNonEmpty ==
    /\ PokemonNameOf(name') # ""
    /\ (~mounted \/ PokemonNameOf(name') # pokemonName)

\* C3 as stated: in every state with an empty name no request is started,
\* loading stays false and pokemon keeps its value; a request is started only
\* by the name becoming or changing to a non-empty value, one per change.
C3_Claim ==
    [][ /\ (PokemonNameOf(name') = ""
              => /\ Len(fetches') = Len(fetches)
                 /\ loading' = FALSE
                 /\ pokemon' = pokemon)
        /\ (Len(fetches') # Len(fetches) => StartsOne /\ BecomesNonEmpty)
        /\ (BecomesNonEmpty /\ mounted' => StartsOne) ]_vars

\* C3 amended: no step that ends with an empty name starts a request; while the
\* name is empty and no fetch started earlier is still in flight, loading stays
\* false and pokemon keeps its value; a request is started only by the name
\* becoming or changing to a non-empty value, exactly one per such change.
C3_Thm ==
    [][ /\ (PokemonNameOf(name') = "" => Len(fetches') = Len(fetches))
        /\ (PokemonNameOf(name') = "" /\ Pending = {}
              => loading' = FALSE /\ pokemon' = pokemon)
        /\ (Len(fetches') # Len(fetches) => StartsOne /\ BecomesNonEmpty)
        /\ (BecomesNonEmpty /\ mounted' => StartsOne) ]_vars

\* The name was changed to empty after a fetch for a non-empty name settled.
C3_Witness ==
    mounted /\ pokemonName = "" /\ Len(fetches) >= 1 /\ Pending = {} /\ ~loading

\* C4 as stated: at most one request is outstanding at any time.
C4_Claim == Cardinality(Pending) <= 1

\* C4 amended: while a request is pending, a step that leaves the requested
\* name unchanged starts no new request (a name change may start a second one).
C4_Thm ==
    [][ Pending # {} /\ PokemonNameOf(name') = pokemonName
          => Len(fetches') = Len(fetches) ]_vars

\* Two requests of the same screen are outstanding together.
C4_Witness == Cardinality(Pending) >= 2

\* C5: when every fetch has settled and the fetch for the latest requested
\* name stored its payload, the payload displayed is the one fetched for it.
C5_Claim ==
    (/\ Len(fetches) >= 1
     /\ Pending = {}
     /\ fetches[Len(fetches)].outcome = "stored")
    => pokemon = PayloadFor(fetches[Len(fetches)].n)

\* The URL of the candidate slot a form label names.
SlotUrl(label) ==
    CASE label = "Default" -> SpriteDefault
      [] label = "Shiny"   -> SpriteShiny
      [] label = "Artwork" -> SpriteArtwork

SlotIsSet(label) == ~Nullish(SlotUrl(label))

C8_Claim ==
    pokemon # NoPokemon =>
        /\ (Len(pokemon.types) >= 1 /\ pokemon.types[1] \notin DOMAIN colorsByType
              => primaryHex = colorsByType["normal"])
        /\ \A k \in 1..Len(typeChips) :
              typeChips[k].type \notin DOMAIN colorsByType
                => /\ typeChips[k].color = colorsByType["normal"]
                   /\ typeChips[k].backgroundColor = pastel(colorsByType["normal"], 65)

\* C9: a stat row's label is the name with every hyphen replaced by a space,
\* no hyphen left, and its key is the name verbatim.
C9_Claim ==
    pokemon # NoPokemon =>
        \A k \in 1..Len(statRows) :
            LET nm == pokemon.stats[k].name
            IN  /\ statRows[k].key = nm
                /\ statRows[k].label
                     = [j \in 1..Len(nm) |-> IF nm[j] = "-" THEN " " ELSE nm[j]]
                /\ \A j \in 1..Len(statRows[k].label) : statRows[k].label[j] # "-"

\* C10: every settling step clears loading; once every started fetch has
\* settled loading is false, and it turns true again only by a new fetch
\* starting; a shown loading state is eventually cleared.
C10_Thm ==
    /\ [](Pending = {} => loading = FALSE)
    /\ [][ /\ (Done' # Done => loading' = FALSE)
           /\ (loading = FALSE /\ loading' = TRUE => StartsOne) ]_vars
    /\ ((loading = TRUE) ~> (loading = FALSE))

\* Two fetches have settled, one of them by a thrown error, and loading is off.
C10_Witness ==
    /\ Len(fetches) >= 2
    /\ Pending = {}
    /\ \E i \in 1..Len(fetches) : fetches[i].outcome = "threw"
    /\ loading = FALSE

====
